---- MODULE Spec2Model ----
(***************************************************************************)
(* Portfolio valuation of cryptoflow-journal: the price adapter and its    *)
(* cache (src/lib/priceApi.ts), the usePortfolioPnL hook                   *)
(* (src/hooks/usePriceData.ts) and the GrandTotalPortfolio composer        *)
(* (src/components/dashboard/InvestorDashboard.tsx).                       *)
(*                                                                         *)
(* Numbers are integers.  A JavaScript value that may be null or undefined *)
(* is a sequence of length 0 (Null) or 1 (Some(x)).  The result of a       *)
(* JavaScript division is the fraction [num, den]; den = 0 stands for      *)
(* NaN (num = 0) and +/-Infinity (num = +/-1).                             *)
(***************************************************************************)
EXTENDS Integers, Sequences, FiniteSets, TLC

VARIABLES
    trades,         \* the ledger rows handed to usePortfolioPnL / GrandTotalPortfolio
    cashflows,      \* the cash-flow rows handed to GrandTotalPortfolio
    currency,       \* the display currency handed to the hook
    priceCache,     \* priceApi.ts: priceCache, cache key -> [price, timestamp]
    now,            \* Date.now()
    portfolioData,  \* usePortfolioPnL state
    loading,        \* usePortfolioPnL state
    error,          \* usePortfolioPnL state
    lastUpdated,    \* usePortfolioPnL state
    passes,         \* the calculatePortfolio calls in flight, each with its position
    passesStarted,  \* how many calculatePortfolio calls were made
    lastPass,       \* the calculatePortfolio call that settled last, if any
    calls,          \* the fetchCryptoPrice calls in flight, each with its position
    callsStarted,   \* how many fetchCryptoPrice calls were made
    lastCall,       \* the fetchCryptoPrice call that returned last, if any
    tradesTable,    \* the rows of the `trades` table of the signed-in trader
    realTime,       \* useRealTimePrices state: prices, loading, error, lastUpdated
    interval,       \* useRealTimePrices: its arguments and the timer of its effect
    fetches,        \* the fetchPrices calls of useRealTimePrices in flight
    lastFetch       \* the fetchPrices call that settled last, if any

vars == <<trades, cashflows, currency, priceCache, now,
          portfolioData, loading, error, lastUpdated,
          passes, passesStarted, lastPass, calls, callsStarted, lastCall,
          tradesTable, realTime, interval, fetches, lastFetch>>

hookVars == <<portfolioData, loading, error, lastUpdated>>
inputVars == <<trades, cashflows, currency>>
passVars == <<passes, passesStarted, lastPass>>
callVars == <<calls, callsStarted, lastCall>>
dashboardVars == <<tradesTable>>
realTimeVars == <<realTime, interval, fetches, lastFetch>>

-----------------------------------------------------------------------------
(* JavaScript values *)

Null == <<>>
Some(x) == <<x>>
IsNull(v) == v = Null
Val(v) == v[1]

\* `x || 0` on an optional number
OrZero(v) == IF v = Null \/ Val(v) = 0 THEN 0 ELSE Val(v)

\* truthiness of an optional number: null, undefined and 0 are falsy
Truthy(v) == v # Null /\ Val(v) # 0

Abs(x) == IF x < 0 THEN -x ELSE x
Sign(x) == IF x < 0 THEN -1 ELSE IF x > 0 THEN 1 ELSE 0

\* a / b in JavaScript
JsDiv(a, b) == [num |-> IF b = 0 THEN Sign(a) ELSE a, den |-> b]
\* q * k for a division result q
JsScale(q, k) == [num |-> IF q.den = 0 THEN q.num * Sign(k) ELSE q.num * k, den |-> q.den]
\* the number n as a division result
JsNum(n) == [num |-> n, den |-> 1]

IsFinite(q) == q.den # 0
\* q is the finite number a / b
EqualsRatio(q, a, b) == q.den # 0 /\ b # 0 /\ q.num * b = a * q.den

-----------------------------------------------------------------------------
(* Symbols *)

Symbols == {"BTC", "btc", "DOGE"}
Currencies == {"USD", "PHP"}

toUpperCase == [s \in Symbols |-> IF s = "btc" THEN "BTC" ELSE s]
toLowerCase == [s \in Symbols |-> IF s = "BTC" THEN "btc" ELSE IF s = "DOGE" THEN "doge" ELSE s]

SYMBOL_TO_ID_MAP == [s \in {"BTC"} |-> "bitcoin"]

symbolToCoinGeckoId(symbol) ==
    LET upperSymbol == toUpperCase[symbol]
    IN  IF upperSymbol \in DOMAIN SYMBOL_TO_ID_MAP
        THEN SYMBOL_TO_ID_MAP[upperSymbol]
        ELSE toLowerCase[symbol]

\* `${symbol.toUpperCase()}_${currency}`
CacheKey(symbol, cur) == <<toUpperCase[symbol], cur>>

-----------------------------------------------------------------------------
(* Price cache *)

RATE_LIMIT_DELAY == 3000
CACHE_DURATION == 1800000

getCachedPriceAtLimit(cache, cacheKey, time) ==
    IF cacheKey \in DOMAIN cache /\ (time - cache[cacheKey].timestamp) <= CACHE_DURATION
    THEN Some(cache[cacheKey].price)
    ELSE Null

getCachedPrice(cache, cacheKey, time) ==
    IF cacheKey \in DOMAIN cache /\ (time - cache[cacheKey].timestamp) < CACHE_DURATION
    THEN Some(cache[cacheKey].price)
    ELSE Null

setCachedPriceKeepingFresh(cache, cacheKey, price, time) ==
    IF cacheKey \in DOMAIN cache /\ time - cache[cacheKey].timestamp < CACHE_DURATION
    THEN cache
    ELSE [k \in DOMAIN cache \cup {cacheKey} |->
            IF k = cacheKey THEN [price |-> price, timestamp |-> time] ELSE cache[k]]

setCachedPriceEvicting(cache, cacheKey, price, time) ==
    [k \in {x \in DOMAIN cache : time - cache[x].timestamp < CACHE_DURATION} \cup {cacheKey} |->
        IF k = cacheKey THEN [price |-> price, timestamp |-> time] ELSE cache[k]]

setCachedPrice(cache, cacheKey, price, time) ==
    [k \in DOMAIN cache \cup {cacheKey} |->
        IF k = cacheKey THEN [price |-> price, timestamp |-> time] ELSE cache[k]]

EmptyCache == [k \in {} |-> 0]

-----------------------------------------------------------------------------
(* calculatePortfolioPnL: net positions *)

NoSide == "undefined"

IndexOfAsset(positions, asset) ==
    IF \E i \in 1..Len(positions) : positions[i].asset = asset
    THEN CHOOSE i \in 1..Len(positions) : positions[i].asset = asset
    ELSE 0

AccumulateSideRequired(positions, trade) ==
    LET asset == toUpperCase[trade.asset]
        isBuy == trade.buy_sell = "buy"
        quantity == IF isBuy THEN trade.quantity ELSE -trade.quantity
        cost == trade.price * Abs(trade.quantity)
        i == IndexOfAsset(positions, asset)
        created == IF i = 0
                   THEN Append(positions, [asset |-> asset, totalQuantity |-> 0,
                                           totalCost |-> 0, totalFees |-> 0])
                   ELSE positions
        j == IF i = 0 THEN Len(created) ELSE i
    IN  [created EXCEPT ![j] =
            [asset |-> asset,
             totalQuantity |-> @.totalQuantity + quantity,
             totalCost |-> @.totalCost + (IF isBuy THEN cost ELSE -cost),
             totalFees |-> @.totalFees + OrZero(trade.fees)]]

\* one iteration of the loop over spotTrades
Accumulate(positions, trade) ==
    LET asset == toUpperCase[trade.asset]
        isBuy == trade.buy_sell = NoSide \/ trade.buy_sell = "buy"
        quantity == IF isBuy THEN trade.quantity ELSE -trade.quantity
        cost == trade.price * Abs(trade.quantity)
        fees == OrZero(trade.fees)
        i == IndexOfAsset(positions, asset)
        created == IF i = 0
                   THEN Append(positions, [asset |-> asset, totalQuantity |-> 0,
                                           totalCost |-> 0, totalFees |-> 0])
                   ELSE positions
        j == IF i = 0 THEN Len(created) ELSE i
    IN  [created EXCEPT ![j] =
            [asset |-> asset,
             totalQuantity |-> @.totalQuantity + quantity,
             totalCost |-> @.totalCost + (IF isBuy THEN cost ELSE -cost),
             totalFees |-> @.totalFees + fees]]

RECURSIVE PositionsUpTo(_, _)
PositionsUpTo(spotTrades, n) ==
    IF n = 0 THEN <<>>
    ELSE Accumulate(PositionsUpTo(spotTrades, n - 1), spotTrades[n])

PositionsBeforeLast(spotTrades) ==
    PositionsUpTo(spotTrades, IF Len(spotTrades) = 0 THEN 0 ELSE Len(spotTrades) - 1)

Positions(spotTrades) == PositionsUpTo(spotTrades, Len(spotTrades))

IsActiveOrFlat(pos) == pos.totalQuantity >= 0

IsActive(pos) == pos.totalQuantity > 0

\* Object.entries(positions).filter(([_, pos]) => pos.totalQuantity > 0)
ActivePositions(spotTrades) == SelectSeq(Positions(spotTrades), IsActive)

-----------------------------------------------------------------------------
(* calculatePortfolioPnL: valuation of the active positions *)

\* record[key], undefined when the key is absent
Lookup(record, key) == IF key \in DOMAIN record THEN record[key] ELSE Null

InvestedLessFees(position) == position.totalCost - position.totalFees

Invested(position) == position.totalCost + position.totalFees

PercentageUnguarded(unrealizedPnL, invested) ==
    JsScale(JsDiv(unrealizedPnL, invested), 100)

\* invested > 0 ? (unrealizedPnL / invested) * 100 : 0
Percentage(unrealizedPnL, invested) ==
    IF invested > 0 THEN JsScale(JsDiv(unrealizedPnL, invested), 100) ELSE JsNum(0)

CurrentValueOrInvested(currentPrice, position) ==
    IF Truthy(currentPrice) THEN Val(currentPrice) * position.totalQuantity
    ELSE Invested(position)

\* currentPrice ? currentPrice * position.totalQuantity : 0
CurrentValue(currentPrice, position) ==
    IF Truthy(currentPrice) THEN Val(currentPrice) * position.totalQuantity ELSE 0

BreakdownItem(position, currentPrices) ==
    LET currentPrice == Lookup(currentPrices, position.asset)
        avgPurchasePrice == JsDiv(position.totalCost, position.totalQuantity)
        invested == Invested(position)
        currentValue == CurrentValue(currentPrice, position)
        unrealizedPnL == currentValue - invested
        pnlPercentage == Percentage(unrealizedPnL, invested)
    IN  [asset |-> position.asset,
         quantity |-> position.totalQuantity,
         purchasePrice |-> avgPurchasePrice,
         currentPrice |-> currentPrice,
         currentValue |-> currentValue,
         invested |-> invested,
         unrealizedPnL |-> unrealizedPnL,
         pnlPercentage |-> pnlPercentage]

AssetBreakdown(activePositions, currentPrices) ==
    [i \in 1..Len(activePositions) |-> BreakdownItem(activePositions[i], currentPrices)]

RECURSIVE SumInvestedOfPriced(_, _)
SumInvestedOfPriced(items, n) ==
    IF n = 0 THEN 0
    ELSE SumInvestedOfPriced(items, n - 1)
         + (IF items[n].currentPrice = Null THEN 0 ELSE items[n].invested)

RECURSIVE SumInvested(_, _)
SumInvested(items, n) ==
    IF n = 0 THEN 0 ELSE SumInvested(items, n - 1) + items[n].invested

RECURSIVE SumCurrentValue(_, _)
SumCurrentValue(items, n) ==
    IF n = 0 THEN 0 ELSE SumCurrentValue(items, n - 1) + items[n].currentValue

EmptySummary ==
    [totalInvested |-> 0, totalCurrentValue |-> 0, totalUnrealizedPnL |-> 0,
     totalPnLPercentage |-> JsNum(0), assetBreakdown |-> <<>>]

\* lines 381-414: the summary once the prices are known
PortfolioSummary(activePositions, currentPrices) ==
    LET assetBreakdown == AssetBreakdown(activePositions, currentPrices)
        totalInvested == SumInvested(assetBreakdown, Len(assetBreakdown))
        totalCurrentValue == SumCurrentValue(assetBreakdown, Len(assetBreakdown))
        totalUnrealizedPnL == totalCurrentValue - totalInvested
        totalPnLPercentage == Percentage(totalUnrealizedPnL, totalInvested)
    IN  [totalInvested |-> totalInvested,
         totalCurrentValue |-> totalCurrentValue,
         totalUnrealizedPnL |-> totalUnrealizedPnL,
         totalPnLPercentage |-> totalPnLPercentage,
         assetBreakdown |-> assetBreakdown]

\* activePositions.map(([asset]) => asset)
AssetsOf(activePositions) == [i \in 1..Len(activePositions) |-> activePositions[i].asset]

-----------------------------------------------------------------------------
(* The outcome of a call: it returns a value or throws *)

Return(v) == [kind |-> "return", value |-> v]
Throw == [kind |-> "throw", value |-> Null]

-----------------------------------------------------------------------------
(* fetchMultipleCryptoPrices *)

Range(s) == {s[i] : i \in 1..Len(s)}

IsCached(cache, symbol, cur, time) ==
    getCachedPrice(cache, CacheKey(symbol, cur), time) # Null

\* lines 183-192: the results taken from the cache
CachedResults(symbols, cur, cache, time) ==
    [u \in {toUpperCase[s] : s \in {x \in Range(symbols) : IsCached(cache, x, cur, time)}} |->
        getCachedPrice(cache, <<u, cur>>, time)]

UncachedSymbolsAll(symbols, cur, cache, time) == symbols

\* lines 181-192: the symbols that need the request, in order
UncachedSymbols(symbols, cur, cache, time) ==
    LET NotCached(s) == ~IsCached(cache, s, cur, time)
    IN  SelectSeq(symbols, NotCached)

\* What the market-data service may answer to one request for coinIds
PriceValues == {0, 2}
FailureKinds == {"networkError", "httpError", "badJson"}
Responses(coinIds) ==
    {[kind |-> k, data |-> EmptyCache] : k \in FailureKinds}
    \cup {[kind |-> "ok", data |-> d] :
            d \in [coinIds -> {Null} \cup {Some(v) : v \in PriceValues}]}

HasEntry(data, coinId) == Lookup(data, coinId) # Null

\* data[coinId] && data[coinId][currencyParam]
HasPrice(data, coinId) == Truthy(Lookup(data, coinId))

\* lines 215-232: results after the loop over uncachedSymbols
ResultsAfter(results, uncachedSymbols, data) ==
    LET fetched == {toUpperCase[s] : s \in Range(uncachedSymbols)}
        \* the last symbol written for an upper-cased key decides it
        Last(u) == CHOOSE i \in 1..Len(uncachedSymbols) :
                      /\ toUpperCase[uncachedSymbols[i]] = u
                      /\ \A j \in (i + 1)..Len(uncachedSymbols) :
                            toUpperCase[uncachedSymbols[j]] # u
        Price(u) == LET coinId == symbolToCoinGeckoId(uncachedSymbols[Last(u)])
                    IN  IF HasPrice(data, coinId) THEN data[coinId] ELSE Null
    IN  [u \in DOMAIN results \cup fetched |->
            IF u \in fetched THEN Price(u) ELSE results[u]]

\* lines 215-232: the cache after the loop over uncachedSymbols
RECURSIVE CacheAfter(_, _, _, _, _, _)
CacheAfter(cache, uncachedSymbols, n, cur, data, time) ==
    IF n = 0 THEN cache
    ELSE LET before == CacheAfter(cache, uncachedSymbols, n - 1, cur, data, time)
             symbol == uncachedSymbols[n]
             coinId == symbolToCoinGeckoId(symbol)
         IN  IF HasPrice(data, coinId)
             THEN setCachedPrice(before, CacheKey(symbol, cur), Val(data[coinId]), time)
             ELSE before

\* lines 242-245: null for every requested symbol
AllNull(symbols) == [u \in {toUpperCase[s] : s \in Range(symbols)} |-> Null]

\* lines 206-232: the try block from the response on
FetchMultipleBody(results, uncachedSymbols, response) ==
    IF response.kind # "ok" THEN Throw
    ELSE Return(ResultsAfter(results, uncachedSymbols, response.data))

FetchMultipleRethrow(symbols, outcome) == outcome

\* lines 239-246: the catch block
FetchMultipleCatch(symbols, outcome) ==
    IF outcome.kind = "throw" THEN Return(AllNull(symbols)) ELSE outcome

-----------------------------------------------------------------------------
(* usePortfolioPnL *)

IsSpot(trade) == trade.category = "spot"

Hook == [portfolioData |-> portfolioData, loading |-> loading,
         error |-> error, lastUpdated |-> lastUpdated]

SetHook(h) ==
    /\ portfolioData' = h.portfolioData
    /\ loading' = h.loading
    /\ error' = h.error
    /\ lastUpdated' = h.lastUpdated

\* lines 159-160: setLoading(true); setError(null)
Begun(h) == [h EXCEPT !.loading = TRUE, !.error = Null]

\* lines 162-171: the try / catch / finally around the awaited calculation
Settled(h, calculation, time) ==
    IF calculation.kind = "return"
    THEN [h EXCEPT !.portfolioData = calculation.value,
                   !.lastUpdated = Some(time),
                   !.loading = FALSE]
    ELSE [h EXCEPT !.error = Some("Failed to calculate portfolio PnL"),
                   !.portfolioData = Null,
                   !.loading = FALSE]

\* priceApi.ts lines 334-428: calculatePortfolioPnL from the awaited prices on;
\* its catch block turns whatever was thrown into null
Calculation(activePositions, fetched) ==
    IF fetched.kind = "throw" THEN Return(Null)
    ELSE Return(Some(PortfolioSummary(activePositions, fetched.value)))

Max(a, b) == IF a > b THEN a ELSE b

\* One call of calculatePortfolio: where it stands and what it holds
Pass(stage, spotTrades, cur, active, symbols, uncached, results, requested, fetched, calculation, since) ==
    [stage |-> stage,               \* "fetching", "delaying" or "done"
     n |-> passesStarted + 1,       \* the n-th call of calculatePortfolio
     spotTrades |-> spotTrades,     \* the spot rows it was called with
     currency |-> cur,
     active |-> active,             \* activePositions
     symbols |-> symbols,           \* the symbols handed to fetchMultipleCryptoPrices
     uncached |-> uncached,         \* uncachedSymbols
     results |-> results,           \* results so far
     requested |-> requested,       \* an outbound request was issued
     response |-> Null,             \* what the outbound request settled with
     answered |-> Null,             \* Date.now() when the outbound request settled
     failed |-> FALSE,              \* the outbound request failed
     fetched |-> fetched,           \* how fetchMultipleCryptoPrices settled
     calculation |-> calculation,   \* how calculatePortfolioPnL settled
     began |-> since,               \* Date.now() when the pass was called
     since |-> since]               \* Date.now() when the current stage began

Pending == [kind |-> "pending", value |-> Null]

\* the sequence s without its i-th element
Without(s, i) == SubSeq(s, 1, i - 1) \o SubSeq(s, i + 1, Len(s))

\* usePriceData.ts lines 144-172 with priceApi.ts lines 334-379 and 177-206:
\* calculatePortfolio up to its first suspension on the network, reading `cache`
StartPassOn(cache, ts, cur, limit) ==
    /\ passesStarted < limit
    /\ passesStarted' = passesStarted + 1
    /\ LET spotTrades == SelectSeq(ts, IsSpot)
           active == ActivePositions(spotTrades)
           symbols == AssetsOf(active)
           results == CachedResults(symbols, cur, cache, now)
           uncached == UncachedSymbols(symbols, cur, cache, now)
           empty == Return(Some(EmptySummary))
           fetched == Return(results)
           calculation == Calculation(active, fetched)
       IN  IF Len(spotTrades) = 0
           THEN /\ SetHook([Hook EXCEPT !.portfolioData = Some(EmptySummary)])
                /\ lastPass' = Some(
                      Pass("done", spotTrades, cur, active, symbols, uncached,
                           results, FALSE, Pending, Pending, now))
                /\ UNCHANGED passes
           ELSE IF Len(active) = 0
           THEN /\ SetHook(Settled(Begun(Hook), empty, now))
                /\ lastPass' = Some(
                      Pass("done", spotTrades, cur, active, symbols, uncached,
                           results, FALSE, Pending, empty, now))
                /\ UNCHANGED passes
           ELSE IF Len(uncached) = 0
           THEN /\ SetHook(Settled(Begun(Hook), calculation, now))
                /\ lastPass' = Some(
                      Pass("done", spotTrades, cur, active, symbols, uncached,
                           results, FALSE, fetched, calculation, now))
                /\ UNCHANGED passes
           ELSE /\ SetHook(Begun(Hook))
                /\ passes' = Append(passes,
                      Pass("fetching", spotTrades, cur, active, symbols, uncached,
                           results, TRUE, Pending, Pending, now))
                /\ UNCHANGED lastPass
    /\ UNCHANGED <<now, callVars>>

\* calculatePortfolio called with the cache as it is
StartPass(ts, cur, limit) ==
    /\ StartPassOn(priceCache, ts, cur, limit)
    /\ UNCHANGED priceCache

\* usePriceData.ts lines 174-176 and 184: the effect at mount, or refetch
calculatePortfolio(limit) ==
    /\ StartPass(trades, currency, limit)
    /\ UNCHANGED <<dashboardVars, realTimeVars, inputVars>>

\* priceApi.ts lines 206-246: the awaited request of pass i settles with `response`
FetchSettles(i, response) ==
    LET p == passes[i]
        body == FetchMultipleBody(p.results, p.uncached, response)
        fetched == FetchMultipleCatch(p.symbols, body)
        calculation == Calculation(p.active, fetched)
    IN  IF body.kind = "return"
        THEN \* the prices are cached, then the rate-limit delay is awaited
             /\ priceCache' = CacheAfter(priceCache, p.uncached, Len(p.uncached),
                                         p.currency, response.data, now)
             /\ passes' = [passes EXCEPT ![i] =
                   [@ EXCEPT !.stage = "delaying", !.results = body.value,
                             !.response = Some(response), !.answered = Some(now),
                             !.since = now]]
             /\ UNCHANGED <<hookVars, lastPass>>
        ELSE \* the catch block returns at once and the hook commits
             /\ SetHook(Settled(Hook, calculation, now))
             /\ passes' = Without(passes, i)
             /\ lastPass' = Some(
                   [p EXCEPT !.stage = "done", !.failed = TRUE, !.fetched = fetched,
                             !.response = Some(response), !.answered = Some(now),
                             !.calculation = calculation, !.since = now])
             /\ UNCHANGED priceCache

FetchResponds ==
    \E i \in 1..Len(passes) :
        /\ passes[i].stage = "fetching"
        /\ \E response \in
              Responses({symbolToCoinGeckoId(s) : s \in Range(passes[i].uncached)}) :
                 FetchSettles(i, response)
        /\ UNCHANGED <<dashboardVars, realTimeVars, inputVars, now, passesStarted, callVars>>

\* priceApi.ts lines 235-237 and 381-423, usePriceData.ts lines 164-170: the
\* delay of pass i is over, the prices are returned, valued and committed
DelayElapses ==
    \E i \in 1..Len(passes) :
        LET p == passes[i]
            time == Max(now, p.since + RATE_LIMIT_DELAY)
            fetched == Return(p.results)
            calculation == Calculation(p.active, fetched)
        IN  /\ p.stage = "delaying"
            /\ now' = time
            /\ SetHook(Settled(Hook, calculation, time))
            /\ passes' = Without(passes, i)
            /\ lastPass' = Some(
                  [p EXCEPT !.stage = "done", !.fetched = fetched,
                            !.calculation = calculation, !.since = time])
            /\ UNCHANGED <<dashboardVars, realTimeVars, inputVars, priceCache, passesStarted, callVars>>

-----------------------------------------------------------------------------
(* fetchCryptoPrice *)

\* lines 139-162: the try block from the response on
FetchPriceBody(symbol, response) ==
    LET coinId == symbolToCoinGeckoId(symbol)
    IN  IF response.kind # "ok" THEN Throw
        ELSE IF ~HasPrice(response.data, coinId) THEN Return(Null)
        ELSE Return(response.data[coinId])

FetchPriceRethrow(outcome) == outcome

\* lines 164-167: the catch block
FetchPriceCatch(outcome) == IF outcome.kind = "throw" THEN Return(Null) ELSE outcome

\* One call of fetchCryptoPrice: where it stands and what it holds
Call(stage, symbol, cur, requested, price, since) ==
    [stage |-> stage,           \* "fetching", "delaying" or "done"
     symbol |-> symbol,
     currency |-> cur,
     requested |-> requested,   \* an outbound request was issued
     response |-> Null,         \* what the outbound request settled with
     answered |-> Null,         \* Date.now() when the outbound request settled
     price |-> price,           \* how the call settled
     began |-> since,           \* Date.now() when it was called
     since |-> since]           \* Date.now() when the current stage began

\* lines 123-139: fetchCryptoPrice up to its suspension on the network
fetchCryptoPrice(symbol, cur, limit) ==
    /\ callsStarted < limit
    /\ callsStarted' = callsStarted + 1
    /\ LET cachedPrice == getCachedPrice(priceCache, CacheKey(symbol, cur), now)
       IN  IF cachedPrice # Null
           THEN /\ lastCall' = Some(Call("done", symbol, cur, FALSE,
                                         Return(cachedPrice), now))
                /\ UNCHANGED calls
           ELSE /\ calls' = Append(calls,
                      Call("fetching", symbol, cur, TRUE, Pending, now))
                /\ UNCHANGED lastCall
    /\ UNCHANGED <<dashboardVars, realTimeVars, inputVars, priceCache, now, hookVars, passVars>>

\* lines 139-167: the awaited request of call i settles with `response`
PriceSettles(i, response) ==
    LET c == calls[i]
        body == FetchPriceBody(c.symbol, response)
        price == FetchPriceCatch(body)
    IN  IF body.kind = "return" /\ body.value # Null
        THEN \* the price is cached, then the rate-limit delay is awaited
             /\ priceCache' = setCachedPrice(priceCache, CacheKey(c.symbol, c.currency),
                                             Val(body.value), now)
             /\ calls' = [calls EXCEPT ![i] =
                   [@ EXCEPT !.stage = "delaying", !.price = body,
                             !.response = Some(response), !.answered = Some(now),
                             !.since = now]]
             /\ UNCHANGED lastCall
        ELSE \* no price for the symbol, or the catch block: null at once
             /\ calls' = Without(calls, i)
             /\ lastCall' = Some(
                   [c EXCEPT !.stage = "done", !.price = price,
                             !.response = Some(response), !.answered = Some(now),
                             !.since = now])
             /\ UNCHANGED priceCache

PriceResponds ==
    \E i \in 1..Len(calls) :
        /\ calls[i].stage = "fetching"
        /\ \E response \in Responses({symbolToCoinGeckoId(calls[i].symbol)}) :
              PriceSettles(i, response)
        /\ UNCHANGED <<dashboardVars, realTimeVars, inputVars, now, hookVars, passVars, callsStarted>>

\* lines 160-162: the delay of call i is over and the price is returned
PriceDelayElapses ==
    \E i \in 1..Len(calls) :
        LET time == Max(now, calls[i].since + RATE_LIMIT_DELAY)
        IN  /\ calls[i].stage = "delaying"
            /\ now' = time
            /\ calls' = Without(calls, i)
            /\ lastCall' = Some([calls[i] EXCEPT !.stage = "done", !.since = time])
            /\ UNCHANGED <<dashboardVars, realTimeVars, inputVars, priceCache, hookVars, passVars, callsStarted>>

clearExpiredPrices ==
    /\ priceCache # EmptyCache
    /\ priceCache' = [k \in {x \in DOMAIN priceCache :
                                now - priceCache[x].timestamp < CACHE_DURATION}
                        |-> priceCache[k]]
    /\ UNCHANGED <<dashboardVars, realTimeVars, inputVars, now, hookVars, passVars, callVars>>

\* lines 434-437
clearPriceCache ==
    /\ priceCache # EmptyCache
    /\ priceCache' = EmptyCache
    /\ UNCHANGED <<dashboardVars, realTimeVars, inputVars, now, hookVars, passVars, callVars>>

handleRefreshKeepingQuotes(limit) ==
    /\ passesStarted > 0
    /\ StartPass(trades, currency, limit)
    /\ UNCHANGED <<dashboardVars, realTimeVars, inputVars>>

\* InvestorDashboard.tsx lines 944-947 (TradesList.tsx lines 395-398) with
\* usePriceData.ts lines 241-253: the refresh button of a mounted component;
\* clearCache() empties the cache and refetch() then runs calculatePortfolio
handleRefresh(limit) ==
    /\ passesStarted > 0
    /\ priceCache' = EmptyCache
    /\ StartPassOn(EmptyCache, trades, currency, limit)
    /\ UNCHANGED <<dashboardVars, realTimeVars, inputVars>>

-----------------------------------------------------------------------------
(* useRealTimePrices *)

\* usePriceData.ts line 193: the default of refreshInterval
DEFAULT_REFRESH_INTERVAL == 1800000

\* One call of fetchPrices: where it stands and what it holds
Fetch(stage, tick, symbols, cur, uncached, results, requested, fetched, since) ==
    [stage |-> stage,           \* "fetching", "delaying" or "done"
     tick |-> tick,             \* 0: called by the effect; k: by the k-th interval callback
     symbols |-> symbols,
     currency |-> cur,
     uncached |-> uncached,     \* uncachedSymbols
     results |-> results,       \* results so far
     requested |-> requested,   \* an outbound request was issued
     response |-> Null,         \* what the outbound request settled with
     answered |-> Null,         \* Date.now() when the outbound request settled
     fetched |-> fetched,       \* how fetchMultipleCryptoPrices settled
     began |-> since,           \* Date.now() when fetchPrices was called
     since |-> since]           \* Date.now() when the current stage began

\* lines 203-204: setLoading(true); setError(null)
BegunPrices(h) == [h EXCEPT !.loading = TRUE, !.error = Null]

\* lines 206-214: the try / catch / finally around the awaited prices
SettledPrices(h, fetched, time) ==
    IF fetched.kind = "return"
    THEN [h EXCEPT !.prices = fetched.value,
                   !.lastUpdated = Some(time),
                   !.loading = FALSE]
    ELSE [h EXCEPT !.error = Some("Failed to fetch prices"),
                   !.loading = FALSE]

\* lines 200-207 with priceApi.ts lines 177-206: fetchPrices, called at `time`,
\* up to its suspension on the network
StartFetchPrices(tick, symbols, cur, time) ==
    LET results == CachedResults(symbols, cur, priceCache, time)
        uncached == UncachedSymbols(symbols, cur, priceCache, time)
        fetched == Return(results)
    IN  IF Len(symbols) = 0
        THEN UNCHANGED <<realTime, fetches, lastFetch>>
        ELSE IF Len(uncached) = 0
        THEN /\ realTime' = SettledPrices(BegunPrices(realTime), fetched, time)
             /\ lastFetch' = Some(Fetch("done", tick, symbols, cur, uncached,
                                        results, FALSE, fetched, time))
             /\ UNCHANGED fetches
        ELSE /\ realTime' = BegunPrices(realTime)
             /\ fetches' = Append(fetches,
                   Fetch("fetching", tick, symbols, cur, uncached,
                         results, TRUE, Pending, time))
             /\ UNCHANGED lastFetch

\* lines 217-221: the effect at mount calls fetchPrices and sets the interval
useRealTimePrices(symbols, cur, refreshInterval) ==
    /\ interval = Null
    /\ interval' = Some([symbols |-> symbols, currency |-> cur,
                         refreshInterval |-> refreshInterval,
                         since |-> now, ticks |-> 0])
    /\ StartFetchPrices(0, symbols, cur, now)
    /\ UNCHANGED <<dashboardVars, inputVars, priceCache, now, hookVars, passVars, callVars>>

\* line 221: the interval callback runs fetchPrices; the k-th callback runs
\* k * refreshInterval after setInterval, or `late` later, and after the
\* timers of delay() that are due before it
IntervalFires(limit, late) ==
    /\ interval # Null
    /\ Val(interval).ticks < limit
    /\ LET timer == Val(interval)
           due == timer.since + (timer.ticks + 1) * timer.refreshInterval + late
           time == Max(now, due)
       IN  /\ \A f \in Range(fetches) :
                 f.stage = "delaying" => f.since + RATE_LIMIT_DELAY >= time
           /\ now' = time
           /\ interval' = Some([timer EXCEPT !.ticks = @ + 1])
           /\ StartFetchPrices(timer.ticks + 1, timer.symbols, timer.currency, time)
    /\ UNCHANGED <<dashboardVars, inputVars, priceCache, hookVars, passVars, callVars>>

\* priceApi.ts lines 206-246, usePriceData.ts lines 207-214: the request of
\* call i settles with `response`, `latency` after it was issued
PricesSettle(i, response, latency) ==
    LET f == fetches[i]
        time == Max(now, f.since + latency)
        body == FetchMultipleBody(f.results, f.uncached, response)
        fetched == FetchMultipleCatch(f.symbols, body)
    IN  /\ now' = time
        /\ IF body.kind = "return"
           THEN \* the prices are cached, then the rate-limit delay is awaited
                /\ priceCache' = CacheAfter(priceCache, f.uncached, Len(f.uncached),
                                            f.currency, response.data, time)
                /\ fetches' = [fetches EXCEPT ![i] =
                      [@ EXCEPT !.stage = "delaying", !.results = body.value,
                                !.response = Some(response), !.answered = Some(time),
                                !.since = time]]
                /\ UNCHANGED <<realTime, lastFetch>>
           ELSE \* the catch block returns at once and the hook commits
                /\ realTime' = SettledPrices(realTime, fetched, time)
                /\ fetches' = Without(fetches, i)
                /\ lastFetch' = Some(
                      [f EXCEPT !.stage = "done", !.fetched = fetched,
                                !.response = Some(response), !.answered = Some(time),
                                !.since = time])
                /\ UNCHANGED priceCache

\* how long the market-data service takes to answer
Latencies == {200}

PricesRespond ==
    \E i \in 1..Len(fetches) :
        /\ fetches[i].stage = "fetching"
        /\ \E latency \in Latencies :
           \E response \in
              Responses({symbolToCoinGeckoId(x) : x \in Range(fetches[i].uncached)}) :
                 PricesSettle(i, response, latency)
        /\ UNCHANGED <<dashboardVars, inputVars, interval, hookVars, passVars, callVars>>

\* priceApi.ts lines 235-237, usePriceData.ts lines 207-213: the delay of call i
\* is over, the prices are returned and committed
PricesDelayElapse ==
    \E i \in 1..Len(fetches) :
        LET f == fetches[i]
            time == Max(now, f.since + RATE_LIMIT_DELAY)
            fetched == Return(f.results)
        IN  /\ f.stage = "delaying"
            /\ now' = time
            /\ realTime' = SettledPrices(realTime, fetched, time)
            /\ fetches' = Without(fetches, i)
            /\ lastFetch' = Some([f EXCEPT !.stage = "done", !.fetched = fetched,
                                           !.since = time])
            /\ UNCHANGED <<dashboardVars, inputVars, priceCache, interval,
                           hookVars, passVars, callVars>>

-----------------------------------------------------------------------------
(* GrandTotalPortfolio *)

IsDeposit(cf) == cf.type = "deposit"
IsWithdrawal(cf) == cf.type = "withdrawal"

RECURSIVE SumAmount(_, _)
SumAmount(cfs, n) == IF n = 0 THEN 0 ELSE SumAmount(cfs, n - 1) + cfs[n].amount

NetOfDepositsAdded(totalDeposits, totalWithdrawals) == totalDeposits + totalWithdrawals

NetOf(totalDeposits, totalWithdrawals) == totalDeposits - totalWithdrawals

\* lines 963-979
CashflowData(cfs) ==
    LET deposits == SelectSeq(cfs, IsDeposit)
        withdrawals == SelectSeq(cfs, IsWithdrawal)
        totalDeposits == SumAmount(deposits, Len(deposits))
        totalWithdrawals == SumAmount(withdrawals, Len(withdrawals))
    IN  [totalDeposits |-> totalDeposits,
         totalWithdrawals |-> totalWithdrawals,
         netCashflow |-> NetOf(totalDeposits, totalWithdrawals)]

\* CashflowPage, lines 105-120
PageTotals(cfs) ==
    LET deposits == SelectSeq(cfs, IsDeposit)
        withdrawals == SelectSeq(cfs, IsWithdrawal)
        totalDeposits == SumAmount(deposits, Len(deposits))
        totalWithdrawals == SumAmount(withdrawals, Len(withdrawals))
        netCashflow == totalDeposits - totalWithdrawals
    IN  [totalDeposits |-> totalDeposits,
         totalWithdrawals |-> totalWithdrawals,
         netCashflow |-> netCashflow,
         depositCount |-> Len(deposits),
         withdrawalCount |-> Len(withdrawals)]

IsNotSpot(trade) == trade.category # "spot"

\* !['spot', 'futures'].includes(trade.category)
IsNonSpot(trade) == trade.category \notin {"spot", "futures"}

RECURSIVE SumProfitLoss(_, _)
SumProfitLoss(ts, n) ==
    IF n = 0 THEN 0 ELSE SumProfitLoss(ts, n - 1) + OrZero(ts[n].profit_loss)

RECURSIVE SumNonSpotInvested(_, _)
SumNonSpotInvested(ts, n) ==
    IF n = 0 THEN 0
    ELSE SumNonSpotInvested(ts, n - 1)
            + (ts[n].price * ts[n].quantity) + OrZero(ts[n].fees)

NonSpotTradesWithFutures(ts) == SelectSeq(ts, IsNotSpot)

\* trades.filter(trade => !['spot', 'futures'].includes(trade.category))
NonSpotTrades(ts) == SelectSeq(ts, IsNonSpot)

\* lines 982-986
ManualPnL(ts) ==
    LET nonSpotTrades == NonSpotTrades(ts)
    IN  SumProfitLoss(nonSpotTrades, Len(nonSpotTrades))

\* lines 995-996
NonSpotInvested(ts) ==
    LET nonSpotTrades == NonSpotTrades(ts)
    IN  SumNonSpotInvested(nonSpotTrades, Len(nonSpotTrades))

\* portfolioData?.field || 0
SpotFieldWhileCached(data, field) ==
    IF data = Null \/ priceCache = EmptyCache THEN 0 ELSE Val(data)[field]

SpotField(data, field) == IF data = Null THEN 0 ELSE Val(data)[field]

CurrentValueLessManual(spotCurrentValue, nonSpotCurrentValue) ==
    spotCurrentValue - nonSpotCurrentValue

\* line 1001
TotalCurrentValue(spotCurrentValue, nonSpotCurrentValue) ==
    spotCurrentValue + nonSpotCurrentValue

GrandTotalDataCashAsValue(data, ts, cfs) ==
    LET totalCash == CashflowData(cfs).netCashflow
        nonSpotValue == NonSpotInvested(ts) + ManualPnL(ts)
        totalInvested == SpotField(data, "totalInvested") + NonSpotInvested(ts)
        totalCurrentValue == SpotField(data, "totalCurrentValue") + nonSpotValue + totalCash
        totalUnrealizedPnL == SpotField(data, "totalUnrealizedPnL") + ManualPnL(ts)
    IN  [grandTotalValue |-> totalCurrentValue,
         totalInvested |-> totalInvested,
         totalCurrentValue |-> totalCurrentValue,
         totalUnrealizedPnL |-> totalUnrealizedPnL,
         totalPnLPercentage |-> Percentage(totalUnrealizedPnL, totalInvested),
         totalCash |-> totalCash,
         spotValue |-> SpotField(data, "totalCurrentValue"),
         nonSpotValue |-> nonSpotValue,
         cashflowData |-> CashflowData(cfs)]

\* lines 989-1020
GrandTotalDataOf(data, ts, cfs) ==
    LET manualPnL == ManualPnL(ts)
        cashflowData == CashflowData(cfs)
        spotCurrentValue == SpotField(data, "totalCurrentValue")
        spotInvested == SpotField(data, "totalInvested")
        spotUnrealizedPnL == SpotField(data, "totalUnrealizedPnL")
        nonSpotInvested == NonSpotInvested(ts)
        nonSpotCurrentValue == nonSpotInvested + manualPnL
        totalInvested == spotInvested + nonSpotInvested
        totalCurrentValue == TotalCurrentValue(spotCurrentValue, nonSpotCurrentValue)
        totalUnrealizedPnL == spotUnrealizedPnL + manualPnL
        totalCash == cashflowData.netCashflow
        grandTotalValue == totalCurrentValue + totalCash
        totalPnLPercentage ==
            IF totalInvested > 0
            THEN JsScale(JsDiv(totalUnrealizedPnL, totalInvested), 100)
            ELSE JsNum(0)
    IN  [grandTotalValue |-> grandTotalValue,
         totalInvested |-> totalInvested,
         totalCurrentValue |-> totalCurrentValue,
         totalUnrealizedPnL |-> totalUnrealizedPnL,
         totalPnLPercentage |-> totalPnLPercentage,
         totalCash |-> totalCash,
         spotValue |-> spotCurrentValue,
         nonSpotValue |-> nonSpotCurrentValue,
         cashflowData |-> cashflowData]

\* the memoised values of the current render
manualPnL == ManualPnL(trades)
cashflowData == CashflowData(cashflows)
grandTotalData == GrandTotalDataOf(portfolioData, trades, cashflows)

\* lines 1022-1063: which card the component renders
View(data, isLoading, err) ==
    IF isLoading /\ data = Null THEN "loading"     \* "Loading portfolio data..."
    ELSE IF err # Null THEN "error"                \* "Error loading portfolio data"
    ELSE "snapshot"                                \* the figures of grandTotalData

view == View(portfolioData, loading, error)

-----------------------------------------------------------------------------
(* TraderDashboard *)

RECURSIVE SumTradeValue(_, _)
SumTradeValue(ts, n) ==
    IF n = 0 THEN 0 ELSE SumTradeValue(ts, n - 1) + ts[n].price * ts[n].quantity

\* TraderDashboard.tsx lines 85-95: the stats behind "Portfolio Value" and
\* "Total P&L"
DashboardStats(ts) ==
    [totalValue |-> SumTradeValue(ts, Len(ts)),
     totalPnL |-> SumProfitLoss(ts, Len(ts))]

stats == DashboardStats(trades)

-----------------------------------------------------------------------------
(* SpecPnL: one valuation pass over every bounded spot ledger *)

PnLMaxTrades == 2

SeqsUpTo(S, n) == UNION {[1..k -> S] : k \in 0..n}

Trade(category, asset, side, price, quantity, fees, profitLoss) ==
    [category |-> category, asset |-> asset, buy_sell |-> side, price |-> price,
     quantity |-> quantity, fees |-> fees, profit_loss |-> profitLoss]

\* (price, quantity, fees) of a row
Legs == {<<p, q, f>> : p \in {1, 3}, q \in {1, 2}, f \in {Null, Some(1)}}

\* spot rows: every side and leg for two symbols, and the lower-case spelling
\* of one of them with one leg
SpotTradeInputs ==
    {Trade("spot", a, s, l[1], l[2], l[3], Null) :
        a \in {"BTC", "DOGE"}, s \in {"buy", "sell", NoSide}, l \in Legs}
    \cup {Trade("spot", "btc", s, 1, 1, Null, Null) : s \in {"buy", "sell", NoSide}}

\* nothing was called yet
InitCalls ==
    /\ passes = <<>> /\ passesStarted = 0 /\ lastPass = Null
    /\ calls = <<>> /\ callsStarted = 0 /\ lastCall = Null

\* useRealTimePrices is not mounted
NoRealTimePrices ==
    /\ realTime = [prices |-> EmptyCache, loading |-> FALSE,
                   error |-> Null, lastUpdated |-> Null]
    /\ interval = Null
    /\ fetches = <<>>
    /\ lastFetch = Null

InitHook ==
    /\ portfolioData = Null
    /\ loading = FALSE
    /\ error = Null
    /\ lastUpdated = Null

\* the rows of SpecPnL: every spot row, and one investment row
PnLTradeInputs ==
    SpotTradeInputs \cup {Trade("defi", "BTC", NoSide, 2, 1, Null, Some(3))}

InitPnL ==
    /\ trades \in SeqsUpTo(PnLTradeInputs, PnLMaxTrades)
    /\ cashflows = <<>>
    /\ currency = "USD"
    /\ priceCache = EmptyCache
    /\ now = 0
    /\ InitHook
    /\ InitCalls
    /\ tradesTable = trades
    /\ NoRealTimePrices

NextPnL ==
    \/ calculatePortfolio(1)
    \/ FetchResponds
    \/ DelayElapses

SpecPnL == InitPnL /\ [][NextPnL]_vars

-----------------------------------------------------------------------------
(* SpecTotal: the grand total over every bounded ledger and cash-flow list, *)
(* before, during and after one valuation pass                              *)

TotalMaxTrades == 2
MaxCashflows == 2

InvestmentCategories == {"defi", "dual_investment", "liquidity_pool", "liquidity_mining"}

InvestmentInputs ==
    {Trade(c, "BTC", NoSide, 3, 2, Some(1), pl) :
        c \in InvestmentCategories, pl \in {Null, Some(-1)}}
    \cup {Trade("defi", "BTC", NoSide, 1000, 1, Some(0), Some(150)),
          Trade("liquidity_pool", "DOGE", NoSide, 2, 1, Null, Some(3))}

TotalTradeInputs ==
    InvestmentInputs
    \cup {Trade("futures", "BTC", "buy", 3, 2, Some(1), Some(5)),
          Trade("spot", "BTC", "buy", 1, 2, Null, Null),
          Trade("spot", "BTC", "sell", 3, 1, Null, Some(5)),
          Trade("spot", "DOGE", NoSide, 1, 1, Some(1), Null)}

Cashflow(type, amount) == [type |-> type, amount |-> amount]

CashflowInputs ==
    {Cashflow("deposit", 300), Cashflow("deposit", 1000), Cashflow("withdrawal", 300)}

InitTotal ==
    /\ trades \in SeqsUpTo(TotalTradeInputs, TotalMaxTrades)
    /\ cashflows \in SeqsUpTo(CashflowInputs, MaxCashflows)
    /\ currency = "USD"
    /\ priceCache = EmptyCache
    /\ now = 0
    /\ InitHook
    /\ InitCalls
    /\ tradesTable = trades
    /\ NoRealTimePrices

NextTotal ==
    \/ calculatePortfolio(1)
    \/ FetchResponds
    \/ DelayElapses

SpecTotal == InitTotal /\ [][NextTotal]_vars

-----------------------------------------------------------------------------
(* SpecCash: cash-flow entries added, changed and removed around one *)
(* valuation pass                                                    *)

\* the ledgers of SpecCash
CashLedgers ==
    {<<Trade("defi", "BTC", NoSide, 1000, 1, Some(0), Some(150))>>,
     <<Trade("spot", "BTC", "buy", 1, 2, Null, Null),
       Trade("liquidity_pool", "DOGE", NoSide, 2, 1, Null, Some(3))>>}

InitCash ==
    /\ trades \in CashLedgers
    /\ cashflows = <<>>
    /\ currency = "USD"
    /\ priceCache = EmptyCache
    /\ now = 0
    /\ InitHook
    /\ InitCalls
    /\ tradesTable = trades
    /\ NoRealTimePrices

\* TraderDashboard.tsx lines 99 and 170-174: the cash-flow list handed to
\* GrandTotalPortfolio after an entry was added, changed or removed
cashflowsChange ==
    /\ \/ \E cf \in CashflowInputs :
             /\ Len(cashflows) < MaxCashflows
             /\ cashflows' = Append(cashflows, cf)
       \/ \E i \in 1..Len(cashflows) : \E cf \in CashflowInputs \ {cashflows[i]} :
             cashflows' = [cashflows EXCEPT ![i] = cf]
       \/ \E i \in 1..Len(cashflows) :
             cashflows' = Without(cashflows, i)
    /\ UNCHANGED <<dashboardVars, realTimeVars, trades, currency, priceCache, now,
                   hookVars, passVars, callVars>>

NextCash ==
    \/ calculatePortfolio(1)
    \/ FetchResponds
    \/ DelayElapses
    \/ cashflowsChange

SpecCash == InitCash /\ [][NextCash]_vars

-----------------------------------------------------------------------------
(* Spec: one valuation pass and the single-symbol callers of the adapter, *)
(* sharing the cache, while the clock runs and the cache may be cleared    *)

MaxCalls == 1
MaxTicks == 1

\* the ledgers the hook is given: the first at mount, the second on a change
Ledgers ==
    {<<Trade("spot", "BTC", "buy", 1, 1, Some(1), Null)>>,
     <<Trade("spot", "btc", NoSide, 1, 2, Null, Null),
       Trade("spot", "DOGE", "buy", 3, 1, Null, Null)>>}

Init ==
    /\ trades = <<Trade("spot", "BTC", "buy", 1, 1, Some(1), Null)>>
    /\ cashflows = <<>>
    /\ currency = "USD"
    /\ priceCache = EmptyCache
    /\ now = 0
    /\ InitHook
    /\ InitCalls
    /\ tradesTable = trades
    /\ NoRealTimePrices

\* time passes: long enough for a quote cached before the last rate-limit
\* delay to reach its time-to-live
Tick ==
    /\ now + (CACHE_DURATION - RATE_LIMIT_DELAY) <= MaxTicks * CACHE_DURATION
    /\ now' = now + (CACHE_DURATION - RATE_LIMIT_DELAY)
    /\ UNCHANGED <<dashboardVars, realTimeVars, inputVars, priceCache, hookVars, passVars, callVars>>

Next ==
    \/ calculatePortfolio(1)
    \/ FetchResponds
    \/ DelayElapses
    \/ \E cur \in Currencies : fetchCryptoPrice("btc", cur, MaxCalls)
    \/ PriceResponds
    \/ PriceDelayElapses
    \/ clearPriceCache
    \/ Tick

Spec == Init /\ [][Next]_vars

\* Spec with the timers of delay() firing; nothing obliges the market-data
\* service to answer a request
SpecLive ==
    Init /\ [][Next]_vars /\ WF_vars(DelayElapses) /\ WF_vars(PriceDelayElapses)

-----------------------------------------------------------------------------
(* SpecProps: the hook re-rendered with another ledger or currency while *)
(* earlier valuation passes are still in flight                          *)

MaxPasses == 2

\* usePriceData.ts lines 172-176: new trades or a new currency give a new
\* calculatePortfolio callback, and the effect calls it
propsChange(limit) ==
    /\ passesStarted > 0
    /\ \E ts \in Ledgers, cur \in Currencies :
          /\ <<ts, cur>> # <<trades, currency>>
          /\ trades' = ts
          /\ tradesTable' = ts
          /\ currency' = cur
          /\ StartPass(ts, cur, limit)
    /\ UNCHANGED <<realTimeVars, cashflows>>

NextProps ==
    \/ calculatePortfolio(1)
    \/ propsChange(MaxPasses)
    \/ FetchResponds
    \/ DelayElapses

SpecProps == Init /\ [][NextProps]_vars

-----------------------------------------------------------------------------
(* SpecRefresh: a component mounted over a cold or a warm cache, and its *)
(* refresh button                                                        *)

\* the cache at mount: empty, or holding the quote another component of the
\* page has just cached
WarmCaches == {EmptyCache, setCachedPrice(EmptyCache, CacheKey("BTC", "USD"), 2, 0)}

InitRefresh ==
    /\ trades \in Ledgers
    /\ cashflows = <<>>
    /\ currency = "USD"
    /\ priceCache \in WarmCaches
    /\ now = 0
    /\ InitHook
    /\ InitCalls
    /\ tradesTable = trades
    /\ NoRealTimePrices

NextRefresh ==
    \/ calculatePortfolio(1)
    \/ handleRefresh(MaxPasses)
    \/ FetchResponds
    \/ DelayElapses

SpecRefresh == InitRefresh /\ [][NextRefresh]_vars

-----------------------------------------------------------------------------
(* SpecDashboard: the trader dashboard loads its rows and renders the grand *)
(* total over them                                                          *)

DashboardMaxTrades == 2

\* the rows of the trades table: spot rows with a side and a fee, and an
\* investment row with a fee
StoredTradeInputs ==
    {Trade("spot", "BTC", "buy", 1, 2, Some(1), Null),
     Trade("spot", "BTC", "sell", 3, 1, Null, Null),
     Trade("spot", "DOGE", "buy", 1, 1, Null, Null),
     Trade("defi", "BTC", NoSide, 3, 2, Some(1), Some(-1))}

\* TraderDashboard.tsx line 47: the columns of the trades query,
\* 'id, category, price, quantity, profit_loss, asset, created_at'; a column
\* that is not selected is undefined on the row
SelectedColumns(row) == [row EXCEPT !.buy_sell = NoSide, !.fees = Null]

\* TraderDashboard.tsx lines 31-34: the state before the rows are loaded
InitDashboard ==
    /\ tradesTable \in SeqsUpTo(StoredTradeInputs, DashboardMaxTrades)
    /\ trades = <<>>
    /\ cashflows = <<>>
    /\ currency = "USD"
    /\ priceCache = EmptyCache
    /\ now = 0
    /\ InitHook
    /\ InitCalls
    /\ NoRealTimePrices

\* TraderDashboard.tsx lines 43-49, 97-105 and 151-174: the queries are
\* answered, allTrades and cashflows are set, the skeleton gives way to
\* GrandTotalPortfolio and the effect of usePortfolioPnL runs its first pass
fetchDashboardData ==
    /\ passesStarted = 0
    /\ trades' = [i \in 1..Len(tradesTable) |-> SelectedColumns(tradesTable[i])]
    /\ \E cfs \in SeqsUpTo(CashflowInputs, 1) : cashflows' = cfs
    /\ StartPass(trades', currency, 1)
    /\ UNCHANGED <<dashboardVars, realTimeVars, currency>>

NextDashboard ==
    \/ fetchDashboardData
    \/ FetchResponds
    \/ DelayElapses

SpecDashboard == InitDashboard /\ [][NextDashboard]_vars

-----------------------------------------------------------------------------
(* SpecRealTime: useRealTimePrices mounted with the default interval *)

MaxIntervals == 2

\* the symbols the hook is given
RealTimeSymbols == {<<"BTC">>, <<"btc", "DOGE">>}

\* how late an interval callback may run
TimerLateness == {0, 500}

InitRealTime ==
    /\ trades = <<>>
    /\ cashflows = <<>>
    /\ currency = "USD"
    /\ priceCache = EmptyCache
    /\ now = 0
    /\ InitHook
    /\ InitCalls
    /\ tradesTable = trades
    /\ NoRealTimePrices

NextRealTime ==
    \/ \E symbols \in RealTimeSymbols :
          useRealTimePrices(symbols, currency, DEFAULT_REFRESH_INTERVAL)
    \/ \E late \in TimerLateness : IntervalFires(MaxIntervals, late)
    \/ PricesRespond
    \/ PricesDelayElapse

SpecRealTime == InitRealTime /\ [][NextRealTime]_vars

-----------------------------------------------------------------------------
(* What the ledger says, summed directly over its rows *)

IsSell(trade) == trade.buy_sell = "sell"

RECURSIVE NetQuantity(_, _, _)
NetQuantity(ts, n, asset) ==
    IF n = 0 THEN 0
    ELSE NetQuantity(ts, n - 1, asset)
         + (IF toUpperCase[ts[n].asset] # asset THEN 0
            ELSE IF IsSell(ts[n]) THEN -ts[n].quantity ELSE ts[n].quantity)

RECURSIVE CostBasis(_, _, _)
CostBasis(ts, n, asset) ==
    IF n = 0 THEN 0
    ELSE CostBasis(ts, n - 1, asset)
         + (IF toUpperCase[ts[n].asset] # asset THEN 0
            ELSE IF IsSell(ts[n]) THEN -(ts[n].price * ts[n].quantity)
            ELSE ts[n].price * ts[n].quantity)

RECURSIVE FeesPaid(_, _, _)
FeesPaid(ts, n, asset) ==
    IF n = 0 THEN 0
    ELSE FeesPaid(ts, n - 1, asset)
         + (IF toUpperCase[ts[n].asset] # asset \/ ts[n].fees = Null THEN 0
            ELSE Val(ts[n].fees))

Net(p, asset) == NetQuantity(p.spotTrades, Len(p.spotTrades), asset)
Cost(p, asset) == CostBasis(p.spotTrades, Len(p.spotTrades), asset)
Fees(p, asset) == FeesPaid(p.spotTrades, Len(p.spotTrades), asset)

TradedAssets(p) == {toUpperCase[t.asset] : t \in Range(p.spotTrades)}
HeldAssets(p) == {a \in TradedAssets(p) : Net(p, a) > 0}

DonePasses == Range(lastPass)

\* the passes whose calculatePortfolioPnL returned a summary
ValuedPasses ==
    {p \in DonePasses : p.calculation.kind = "return" /\ p.calculation.value # Null}

SummaryOf(p) == Val(p.calculation.value)
ItemsOf(p) == Range(SummaryOf(p).assetBreakdown)

\* q is the percentage 100 * pnl / invested
IsPercentOf(q, pnl, invested) == EqualsRatio(q, 100 * pnl, invested)
IsZero(q) == EqualsRatio(q, 0, 1)

-----------------------------------------------------------------------------
(* Claims checked under SpecPnL *)

\* C1: the per-asset breakdown of calculatePortfolioPnL contains no asset whose
\* net quantity (buys minus sells) is <= 0; an asset bought and fully sold is
\* absent from it.
C1_NoNonPositivePosition ==
    \A p \in ValuedPasses : \A item \in ItemsOf(p) : Net(p, item.asset) > 0

\* a valued pass over a ledger that bought an asset and sold all of it
C1_Witness ==
    \E p \in ValuedPasses : \E a \in TradedAssets(p) :
        /\ Net(p, a) = 0
        /\ \E t \in Range(p.spotTrades) : IsSell(t) /\ toUpperCase[t.asset] = a
        /\ \A item \in ItemsOf(p) : item.asset # a

\* C2 as stated: every percentage field equals unrealizedPnL / invested * 100
\* whenever its invested basis is non-zero, and 0 when the basis is 0.
PercentAsStated(q, pnl, invested) ==
    IF invested # 0 THEN IsPercentOf(q, pnl, invested) ELSE IsZero(q)

C2_AsStated ==
    /\ \A p \in ValuedPasses :
          /\ \A item \in ItemsOf(p) :
                PercentAsStated(item.pnlPercentage, item.unrealizedPnL, item.invested)
          /\ PercentAsStated(SummaryOf(p).totalPnLPercentage,
                             SummaryOf(p).totalUnrealizedPnL, SummaryOf(p).totalInvested)
    /\ PercentAsStated(grandTotalData.totalPnLPercentage,
                       grandTotalData.totalUnrealizedPnL, grandTotalData.totalInvested)

\* C2 (amended): every percentage field equals unrealizedPnL / invested * 100
\* whenever its invested basis is > 0, and equals 0 (never NaN or Infinity)
\* whenever its invested basis is <= 0.
PercentGuarded(q, pnl, invested) ==
    IF invested > 0 THEN IsPercentOf(q, pnl, invested) ELSE IsZero(q)

C2_Percentages ==
    /\ \A p \in ValuedPasses :
          /\ \A item \in ItemsOf(p) :
                PercentGuarded(item.pnlPercentage, item.unrealizedPnL, item.invested)
          /\ PercentGuarded(SummaryOf(p).totalPnLPercentage,
                            SummaryOf(p).totalUnrealizedPnL, SummaryOf(p).totalInvested)
    /\ PercentGuarded(grandTotalData.totalPnLPercentage,
                      grandTotalData.totalUnrealizedPnL, grandTotalData.totalInvested)

\* a committed valuation holding one asset with a zero basis and one with a
\* negative basis, the grand total being computed from it
C2_Witness ==
    \E p \in ValuedPasses :
        /\ portfolioData = p.calculation.value
        /\ \E item \in ItemsOf(p) : item.invested < 0 /\ item.unrealizedPnL # 0
        /\ SummaryOf(p).totalInvested < 0
        /\ grandTotalData.totalInvested < 0

\* C3: for every position with net quantity > 0 in the breakdown, the average
\* purchase price is total cost basis / net quantity and invested is total
\* cost basis + accumulated fees.
C3_AverageCostAndInvested ==
    \A p \in ValuedPasses : \A item \in ItemsOf(p) :
        /\ item.quantity = Net(p, item.asset)
        /\ EqualsRatio(item.purchasePrice, Cost(p, item.asset), Net(p, item.asset))
        /\ item.invested = Cost(p, item.asset) + Fees(p, item.asset)

\* a valued position with a sell leg and fees paid
C3_Witness ==
    \E p \in ValuedPasses : \E item \in ItemsOf(p) :
        /\ Fees(p, item.asset) > 0
        /\ \E t \in Range(p.spotTrades) :
              IsSell(t) /\ toUpperCase[t.asset] = item.asset

\* C9 as stated: when the price fetch for the whole batch fails, the valuation
\* reports an error state to its caller and returns no summary that values the
\* held positions at a total current value of 0.
C9_BatchFailureReported ==
    \A p \in DonePasses :
        p.failed =>
            /\ error # Null
            /\ ~(/\ p.calculation.kind = "return"
                 /\ p.calculation.value # Null
                 /\ SummaryOf(p).totalCurrentValue = 0)

Basis(p, asset) == Cost(p, asset) + Fees(p, asset)

RECURSIVE SumBasis(_, _)
SumBasis(p, assets) ==
    IF assets = {} THEN 0
    ELSE LET a == CHOOSE x \in assets : TRUE
         IN  Basis(p, a) + SumBasis(p, assets \ {a})

\* C10: when the price is unavailable for some held assets, each of them is in
\* the breakdown with currentPrice null and currentValue 0, every other held
\* asset is valued at price * net quantity, and totalInvested includes the
\* invested basis of the unavailable assets.
C10_PartialPrices ==
    \A p \in ValuedPasses :
        LET prices == p.fetched.value
        IN  p.fetched.kind = "return" =>
              /\ \A a \in HeldAssets(p) : \E item \in ItemsOf(p) :
                    /\ item.asset = a
                    /\ item.currentPrice = Lookup(prices, a)
                    /\ IF Lookup(prices, a) = Null
                       THEN item.currentValue = 0
                       ELSE item.currentValue = Val(prices[a]) * Net(p, a)
              /\ SummaryOf(p).totalInvested = SumBasis(p, HeldAssets(p))

\* two held assets, one priced and one without a price
C10_Witness ==
    \E p \in ValuedPasses :
        /\ p.requested /\ ~p.failed
        /\ \E x, y \in ItemsOf(p) :
              /\ x.currentPrice = Null /\ x.invested > 0
              /\ y.currentPrice # Null /\ y.currentValue > 0

-----------------------------------------------------------------------------
(* Claims checked under SpecTotal *)

IsInvestment(trade) == trade.category \in InvestmentCategories

\* the profit_loss of the investment rows, summed row by row
RECURSIVE LedgerManualPnL(_, _)
LedgerManualPnL(ts, n) ==
    IF n = 0 THEN 0
    ELSE LedgerManualPnL(ts, n - 1)
         + (IF IsInvestment(ts[n]) /\ ts[n].profit_loss # Null
            THEN Val(ts[n].profit_loss) ELSE 0)

\* price * quantity + fees of the investment rows, summed row by row
RECURSIVE LedgerManualInvested(_, _)
LedgerManualInvested(ts, n) ==
    IF n = 0 THEN 0
    ELSE LedgerManualInvested(ts, n - 1)
         + (IF IsInvestment(ts[n])
            THEN ts[n].price * ts[n].quantity
                 + (IF ts[n].fees = Null THEN 0 ELSE Val(ts[n].fees))
            ELSE 0)

\* deposits minus withdrawals, summed row by row
RECURSIVE LedgerNetCash(_, _)
LedgerNetCash(cfs, n) ==
    IF n = 0 THEN 0
    ELSE LedgerNetCash(cfs, n - 1)
         + (IF cfs[n].type = "deposit" THEN cfs[n].amount
            ELSE IF cfs[n].type = "withdrawal" THEN -cfs[n].amount ELSE 0)

ManualPnLOfLedger == LedgerManualPnL(trades, Len(trades))
ManualInvestedOfLedger == LedgerManualInvested(trades, Len(trades))
NetCashOfLedger == LedgerNetCash(cashflows, Len(cashflows))

\* the spot valuation the composer is given (all zero while there is none)
SpotValuation == IF portfolioData = Null THEN EmptySummary ELSE Val(portfolioData)

\* C4: the composer yields totalInvested = spot.totalInvested + manual.invested,
\* totalCurrentValue = spot.totalCurrentValue + (manual.invested + manual.pnl),
\* totalUnrealizedPnL = spot.totalUnrealizedPnL + manual.pnl and
\* grandTotal = totalCurrentValue + netCash.
C4_GrandTotalComposition ==
    /\ grandTotalData.totalInvested
          = SpotValuation.totalInvested + ManualInvestedOfLedger
    /\ grandTotalData.totalCurrentValue
          = SpotValuation.totalCurrentValue + (ManualInvestedOfLedger + ManualPnLOfLedger)
    /\ grandTotalData.totalUnrealizedPnL
          = SpotValuation.totalUnrealizedPnL + ManualPnLOfLedger
    /\ grandTotalData.grandTotalValue
          = grandTotalData.totalCurrentValue + NetCashOfLedger

\* a committed spot valuation composed with manual investments and cash
C4_Witness ==
    /\ portfolioData # Null
    /\ Val(portfolioData).totalCurrentValue > 0
    /\ Val(portfolioData).totalInvested > 0
    /\ ManualInvestedOfLedger > 0
    /\ ManualPnLOfLedger # 0
    /\ NetCashOfLedger # 0

\* C5: manual PnL is the sum of profit_loss over exactly the defi,
\* dual_investment, liquidity_pool and liquidity_mining rows (null counted as
\* 0, spot and futures rows never counted), and manual invested is the sum of
\* price * quantity + fees over the same rows.
C5_ManualValuation ==
    /\ manualPnL = ManualPnLOfLedger
    /\ NonSpotInvested(trades) = ManualInvestedOfLedger
    /\ grandTotalData.nonSpotValue = ManualInvestedOfLedger + ManualPnLOfLedger
    /\ (trades = <<Trade("defi", "BTC", NoSide, 1000, 1, Some(0), Some(150))>>
            => /\ NonSpotInvested(trades) = 1000
               /\ manualPnL = 150
               /\ grandTotalData.nonSpotValue = 1150)

\* a ledger with a futures or spot row carrying a profit_loss beside an
\* investment row
C5_Witness ==
    /\ \E t \in Range(trades) : ~IsInvestment(t) /\ t.profit_loss # Null
    /\ \E t \in Range(trades) : IsInvestment(t) /\ t.profit_loss # Null
    /\ manualPnL # 0
    /\ DonePasses # {}

\* C6: net cash is the sum of the deposit amounts minus the sum of the
\* withdrawal amounts (deposit 1000 and withdrawal 300 give 700), on the grand
\* total and on the cash-flow page.
C6_NetCash ==
    /\ cashflowData.netCashflow = NetCashOfLedger
    /\ grandTotalData.totalCash = NetCashOfLedger
    /\ PageTotals(cashflows).netCashflow = NetCashOfLedger
    /\ (cashflows = <<Cashflow("deposit", 1000), Cashflow("withdrawal", 300)>>
            => cashflowData.netCashflow = 700)

\* the scenario of the specification: a deposit of 1000 and a withdrawal of 300
C6_Witness ==
    /\ cashflows = <<Cashflow("deposit", 1000), Cashflow("withdrawal", 300)>>
    /\ cashflowData.netCashflow = 700
    /\ grandTotalData.totalCash = 700
    /\ DonePasses # {}

-----------------------------------------------------------------------------
(* Claims checked under Spec *)

ThirtyMinutes == 30 * 60 * 1000

KeyOf(symbol, cur) == <<toUpperCase[symbol], cur>>

\* the quote cached for a key is younger than thirty minutes
IsFresh(key) ==
    key \in DOMAIN priceCache /\ now - priceCache[key].timestamp < ThirtyMinutes

\* the fetchCryptoPrice call and the valuation pass a step has started
StartedCall == IF calls' # calls THEN calls'[Len(calls')] ELSE Val(lastCall')
StartedPass == IF passes' # passes THEN passes'[Len(passes')] ELSE Val(lastPass')

\* a single-symbol lookup is served the cached quote while it is fresh, and
\* issues a request otherwise
LookupBySymbol ==
    callsStarted' # callsStarted =>
        LET c == StartedCall
            key == KeyOf(c.symbol, c.currency)
        IN  IF IsFresh(key)
            THEN /\ c.stage = "done" /\ ~c.requested
                 /\ c.price = Return(Some(priceCache[key].price))
            ELSE c.stage = "fetching" /\ c.requested

\* a batch lookup is served every fresh quote from the cache and requests
\* every other symbol
LookupByBatch ==
    passesStarted' # passesStarted =>
        LET p == StartedPass
        IN  \A symbol \in Range(p.symbols) :
                LET key == KeyOf(symbol, p.currency)
                IN  IF IsFresh(key)
                    THEN /\ symbol \notin Range(p.uncached)
                         /\ Lookup(p.results, toUpperCase[symbol])
                               = Some(priceCache[key].price)
                    ELSE symbol \in Range(p.uncached) /\ p.requested

\* a quote is stamped with the time it is cached at, and only a clear removes it
PutAndClear ==
    /\ \A key \in DOMAIN priceCache' :
          (key \notin DOMAIN priceCache \/ priceCache'[key] # priceCache[key])
              => priceCache'[key].timestamp = now
    /\ DOMAIN priceCache \subseteq DOMAIN priceCache' \/ priceCache' = EmptyCache

\* C7: after a quote v is cached for a key (symbol, currency) at time t, a
\* lookup of that key at any time t' with t' - t < 30 minutes and no intervening
\* put or clear returns v; a lookup at t' with t' - t >= 30 minutes is a miss,
\* so the quote is refetched rather than served.
C7_CacheTimeToLive == [][LookupBySymbol /\ LookupByBatch /\ PutAndClear]_vars

\* a single-symbol call served, without a request, the quote another caller
\* cached more than 29 minutes before
C7_Witness ==
    \E c \in Range(lastCall) :
        LET key == KeyOf(c.symbol, c.currency)
        IN  /\ ~c.requested
            /\ key \in DOMAIN priceCache
            /\ c.price = Return(Some(priceCache[key].price))
            /\ c.began - priceCache[key].timestamp >= 29 * 60 * 1000
            /\ c.began - priceCache[key].timestamp < ThirtyMinutes

\* the request failed, or answered without an entry for the coin
IsUnavailable(response, coinId) ==
    response.kind # "ok" \/ Lookup(response.data, coinId) = Null

\* C8: fetchCryptoPrice and fetchMultipleCryptoPrices never throw to their
\* caller: a network failure, a non-OK response, or missing price data for a
\* symbol is reported as null for that symbol.
C8_NeverThrows ==
    /\ \A c \in Range(lastCall) :
          /\ c.price.kind = "return"
          /\ (c.requested /\ IsUnavailable(Val(c.response), symbolToCoinGeckoId(c.symbol)))
                => c.price.value = Null
    /\ \A p \in DonePasses :
          p.requested =>
              /\ p.fetched.kind = "return"
              /\ \A symbol \in Range(p.uncached) :
                    IsUnavailable(Val(p.response), symbolToCoinGeckoId(symbol))
                        => Lookup(p.fetched.value, toUpperCase[symbol]) = Null

\* a single-symbol call and a batch whose requests both failed
C8_Witness ==
    \E c \in Range(lastCall), p \in DonePasses :
        /\ c.requested /\ Val(c.response).kind = "networkError"
        /\ c.price = Return(Null)
        /\ p.requested /\ Val(p.response).kind = "httpError"
        /\ p.uncached # <<>>
        /\ p.fetched = Return(AllNull(p.symbols))

-----------------------------------------------------------------------------
(* Claims checked under SpecTotal: the rendered view *)

\* C11 as stated: when the spot-valuation slice is in an error state or has no
\* result, the grand-total view still presents the manual invested / PnL and
\* the net cash computed from the ledger, instead of replacing the whole
\* snapshot.
C11_PartialDataShown ==
    (error # Null \/ portfolioData = Null) => view = "snapshot"

-----------------------------------------------------------------------------
(* Claims checked under Spec: the rate-limit delay *)

\* a fetchCryptoPrice call that issued a request returns in this step, having
\* awaited three seconds since the request settled
CallReturnsDelayed ==
    Len(calls') < Len(calls) =>
        \E i \in 1..Len(calls) :
            /\ calls' = Without(calls, i)
            /\ calls[i].stage = "delaying"
            /\ now' - calls[i].since >= 3000

\* the same for the fetchMultipleCryptoPrices call of a valuation pass
BatchReturnsDelayed ==
    Len(passes') < Len(passes) =>
        \E i \in 1..Len(passes) :
            /\ passes' = Without(passes, i)
            /\ passes[i].stage = "delaying"
            /\ now' - passes[i].since >= 3000

\* C12 as stated: every call of fetchCryptoPrice or fetchMultipleCryptoPrices
\* that issues an outbound request awaits the fixed 3-second delay after that
\* request before returning its result, on every outcome of the request (price
\* found, no price for the symbol, failure).
C12_DelayOnEveryOutcome == [][CallReturnsDelayed /\ BatchReturnsDelayed]_vars

-----------------------------------------------------------------------------
(* Claims checked under SpecLive *)

\* C13 as stated: every adapter call eventually returns (a price or null) even
\* if the market-data service never responds, so a valuation pass cannot leave
\* the loading state set forever.
C13_EveryCallReturns ==
    /\ (calls # <<>>) ~> (calls = <<>>)
    /\ (passes # <<>>) ~> (passes = <<>>)
    /\ loading ~> ~loading

-----------------------------------------------------------------------------
(* Claims checked under SpecProps *)

\* pass i settles in this step although a later pass was started for another
\* ledger or currency
StaleSettles(i) ==
    /\ passes' = Without(passes, i)
    /\ passes[i].n < passesStarted
    /\ \/ passes[i].currency # currency
       \/ passes[i].spotTrades # SelectSeq(trades, IsSpot)

\* C14 as stated: if a valuation pass started for an earlier trade list or
\* currency resolves after a pass for newer input has started, its result is
\* discarded: it is never committed to portfolioData over the result of the
\* newer input.
C14_StalePassDiscarded ==
    [][\A i \in 1..Len(passes) : StaleSettles(i) => portfolioData' = portfolioData]_vars

-----------------------------------------------------------------------------
(* Claims checked under SpecTotal: the trader dashboard *)

\* C15 as stated: for every trade list and cash-flow list, every "portfolio
\* value" figure the system shows (the trader dashboard's Portfolio Value and
\* Total P&L included) equals the corresponding value of the Grand-Total
\* Composer for the same inputs.
C15_SingleSourceOfTruth ==
    (passes = <<>> /\ DonePasses # {}) =>
        /\ stats.totalValue \in {grandTotalData.grandTotalValue,
                                 grandTotalData.totalCurrentValue}
        /\ stats.totalPnL = grandTotalData.totalUnrealizedPnL

-----------------------------------------------------------------------------
(* Claims checked under Spec: manual invalidation *)

\* the cache changes while no call moves: the step is a clear; it leaves no
\* quote behind, whatever its age
ClearLeavesNothing ==
    (priceCache' # priceCache /\ UNCHANGED <<passVars, callVars>>)
        => DOMAIN priceCache' = {}

\* a lookup of a key the cache does not hold is a miss: the call, or the batch,
\* issues a request for it
AbsentKeyMisses ==
    /\ callsStarted' # callsStarted =>
          LET c == StartedCall
          IN  KeyOf(c.symbol, c.currency) \notin DOMAIN priceCache
                  => c.stage = "fetching" /\ c.requested /\ c.price = Pending
    /\ passesStarted' # passesStarted =>
          LET p == StartedPass
          IN  \A symbol \in Range(p.symbols) :
                  KeyOf(symbol, p.currency) \notin DOMAIN priceCache
                      => /\ symbol \in Range(p.uncached)
                         /\ toUpperCase[symbol] \notin DOMAIN p.results

\* a key enters the cache only with the price of a request that has just
\* answered with one
OnlyFetchCaches ==
    \A key \in DOMAIN priceCache' \ DOMAIN priceCache :
        \/ \E i \in 1..Len(calls) :
              /\ calls[i].stage = "fetching" /\ calls'[i].stage = "delaying"
              /\ key = KeyOf(calls[i].symbol, calls[i].currency)
              /\ Some(priceCache'[key].price)
                    = Val(calls'[i].response).data[symbolToCoinGeckoId(calls[i].symbol)]
        \/ \E i \in 1..Len(passes) :
              /\ passes[i].stage = "fetching" /\ passes'[i].stage = "delaying"
              /\ \E symbol \in Range(passes[i].uncached) :
                    /\ key = KeyOf(symbol, passes[i].currency)
                    /\ Some(priceCache'[key].price)
                          = Val(passes'[i].response).data[symbolToCoinGeckoId(symbol)]

\* C16: after clearPriceCache, a lookup of any key (symbol, currency) is a
\* miss, whatever the age of the quotes held before, until a later successful
\* fetch caches that key again.
C16_ClearInvalidates == [][ClearLeavesNothing /\ AbsentKeyMisses /\ OnlyFetchCaches]_vars

\* a single-symbol call requesting a quote that a valuation pass had cached
\* less than thirty minutes before, the cache having been cleared in between
C16_Witness ==
    \E c \in Range(calls), p \in DonePasses :
        /\ c.stage = "fetching"
        /\ p.requested /\ ~p.failed /\ p.currency = c.currency
        /\ Lookup(p.fetched.value, toUpperCase[c.symbol]) # Null
        /\ c.began >= p.since
        /\ c.began - p.began < ThirtyMinutes
        /\ priceCache = EmptyCache

-----------------------------------------------------------------------------
(* Claims checked under SpecCash *)

\* C17: adding, changing or removing cash-flow entries changes only net cash
\* and the grand total: totalInvested, totalCurrentValue, totalUnrealizedPnL
\* and the PnL percentage of the snapshot are unchanged.
C17_CashOnlyMovesCash ==
    [][cashflows' # cashflows =>
          /\ grandTotalData'.totalInvested = grandTotalData.totalInvested
          /\ grandTotalData'.totalCurrentValue = grandTotalData.totalCurrentValue
          /\ grandTotalData'.totalUnrealizedPnL = grandTotalData.totalUnrealizedPnL
          /\ grandTotalData'.totalPnLPercentage = grandTotalData.totalPnLPercentage
          /\ grandTotalData'.grandTotalValue - grandTotalData.grandTotalValue
                = grandTotalData'.totalCash - grandTotalData.totalCash]_vars

\* a snapshot with a spot valuation, manual investments and a net cash that
\* entries were added to and removed from
C17_Witness ==
    /\ portfolioData # Null
    /\ Val(portfolioData).totalCurrentValue > 0
    /\ grandTotalData.nonSpotValue > 0
    /\ cashflows = <<Cashflow("withdrawal", 300), Cashflow("deposit", 1000)>>
    /\ grandTotalData.totalCash = 700
    /\ grandTotalData.grandTotalValue = grandTotalData.totalCurrentValue + 700

-----------------------------------------------------------------------------
(* Claims checked under Spec: the composer *)

-----------------------------------------------------------------------------
(* Claims checked under SpecPnL: positions and totals *)

\* C19: calculatePortfolioPnL groups entries by upper-cased asset symbol
\* (symbols differing only in case form one position) and, per entry, adds
\* +quantity and +price*quantity for a buy, -quantity and -price*quantity for a
\* sell, and adds the fees regardless of side; an entry whose detail map has no
\* side marker is treated as a buy.
C19_SignedAccumulation ==
    \A p \in DonePasses :
        LET positions == Positions(p.spotTrades)
            Of(a) == {i \in 1..Len(positions) : positions[i].asset = a}
        IN  /\ \A i \in 1..Len(positions) : positions[i].asset \in TradedAssets(p)
            /\ \A a \in TradedAssets(p) :
                  /\ Cardinality(Of(a)) = 1
                  /\ \A i \in Of(a) :
                        /\ positions[i].totalQuantity = Net(p, a)
                        /\ positions[i].totalCost = Cost(p, a)
                        /\ positions[i].totalFees = Fees(p, a)
            /\ p.active = SelectSeq(positions, IsActive)

\* a pass over a ledger that spells one asset in both cases, one row without a
\* side marker and one sell carrying a fee
C19_Witness ==
    \E p \in DonePasses : \E t, u \in Range(p.spotTrades) :
        /\ t.asset = "btc" /\ t.buy_sell = NoSide
        /\ u.asset = "BTC" /\ IsSell(u) /\ u.fees # Null
        /\ Len(Positions(p.spotTrades)) = 1

RECURSIVE SumOfField(_, _, _)
SumOfField(items, n, field) ==
    IF n = 0 THEN 0 ELSE SumOfField(items, n - 1, field) + items[n][field]

-----------------------------------------------------------------------------
(* Claims checked under SpecPnL: the order of aggregation and lookup *)

\* the valuation passes, in flight or settled
AllPasses == Range(passes) \cup DonePasses

\* C21: within one valuation pass, no price lookup is issued before every
\* entry of the trade list has been aggregated, and lookups are issued only
\* for assets whose net quantity is > 0.
C21_LookupsAfterAggregation ==
    \A p \in AllPasses :
        /\ Range(p.symbols) = HeldAssets(p)
        /\ Range(p.uncached) \subseteq HeldAssets(p)
        /\ DOMAIN p.results \subseteq HeldAssets(p)
        /\ p.requested => p.uncached # <<>>

\* a pass awaiting its request for an asset that only the last row of the
\* ledger turns into a held one, beside an asset that was sold off
C21_Witness ==
    \E p \in Range(passes) :
        LET last == p.spotTrades[Len(p.spotTrades)]
        IN  /\ p.stage = "fetching" /\ p.requested
            /\ Len(p.spotTrades) = 2
            /\ IsSell(p.spotTrades[1])
            /\ ~IsSell(last)
            /\ toUpperCase[last.asset] \in Range(p.uncached)
            /\ \E a \in TradedAssets(p) : Net(p, a) < 0

-----------------------------------------------------------------------------
(* Claims checked under Spec: what writes the cache *)

\* the entry of a response for a coin is a price: present and not 0
CarriesPrice(response, coinId) ==
    /\ response.kind = "ok"
    /\ Lookup(response.data, coinId) # Null
    /\ Val(response.data[coinId]) # 0

\* in this step the request of a fetchCryptoPrice call was answered with a
\* price, and `quote` is that price stamped with the current time
ObtainedByCall(key, quote) ==
    \E i \in 1..Len(calls) :
        LET coinId == symbolToCoinGeckoId(calls[i].symbol)
        IN  /\ calls[i].stage = "fetching"
            /\ Len(calls') = Len(calls) /\ calls'[i].stage = "delaying"
            /\ key = KeyOf(calls[i].symbol, calls[i].currency)
            /\ CarriesPrice(Val(calls'[i].response), coinId)
            /\ quote = [price |-> Val(Val(calls'[i].response).data[coinId]),
                        timestamp |-> now]

\* the same for a symbol of the request of a valuation pass
ObtainedByBatch(key, quote) ==
    \E i \in 1..Len(passes) :
        /\ passes[i].stage = "fetching"
        /\ Len(passes') = Len(passes) /\ passes'[i].stage = "delaying"
        /\ \E symbol \in Range(passes[i].uncached) :
              LET coinId == symbolToCoinGeckoId(symbol)
              IN  /\ key = KeyOf(symbol, passes[i].currency)
                  /\ CarriesPrice(Val(passes'[i].response), coinId)
                  /\ quote = [price |-> Val(Val(passes'[i].response).data[coinId]),
                              timestamp |-> now]

\* a quote appears or changes only as the quote a request has just obtained
\* for its key, and every quote so obtained is written
OnlyObtainedWritten ==
    \A key \in (Symbols \X Currencies) :
        LET written == key \in DOMAIN priceCache'
                          /\ (key \notin DOMAIN priceCache
                                 \/ priceCache'[key] # priceCache[key])
        IN  /\ written =>
                  \/ ObtainedByCall(key, priceCache'[key])
                  \/ ObtainedByBatch(key, priceCache'[key])
            /\ (\E quote \in [price : PriceValues, timestamp : {now}] :
                    ObtainedByCall(key, quote) \/ ObtainedByBatch(key, quote))
                  => key \in DOMAIN priceCache' /\ priceCache'[key].timestamp = now

\* quotes leave the cache only all at once, in a step that does nothing else
OnlyClearRemoves ==
    \/ DOMAIN priceCache \subseteq DOMAIN priceCache'
    \/ /\ priceCache' = EmptyCache
       /\ UNCHANGED <<inputVars, now, hookVars, passVars, callVars>>

\* C22: the price cache changes only in two ways: a successful fetch that
\* obtained a price writes the quote for exactly the fetched (symbol, currency)
\* key, and the user-triggered clear removes all quotes.  Every other step
\* (cache hit, expiry check, failed request, response without a price for the
\* symbol) leaves the cache unchanged.
C22_CacheFrame == [][OnlyObtainedWritten /\ OnlyClearRemoves]_vars

\* a quote cached by a valuation pass is still there, alone, after a
\* single-symbol call for another key got no price from its request
C22_Witness ==
    \E c \in Range(lastCall), p \in AllPasses :
        /\ c.requested /\ c.price = Return(Null)
        /\ KeyOf(c.symbol, c.currency) \notin DOMAIN priceCache
        /\ p.stage # "fetching" /\ p.requested /\ ~p.failed
        /\ c.began >= p.since
        /\ \E symbol \in Range(p.uncached) :
              /\ KeyOf(symbol, p.currency) \in DOMAIN priceCache
              /\ priceCache[KeyOf(symbol, p.currency)].timestamp <= p.since

-----------------------------------------------------------------------------
(* Claims checked under SpecRefresh *)

\* the symbols of a pass for which the cache it reads holds no quote younger
\* than thirty minutes (a refresh empties the cache in the step that starts
\* the pass)
NeedsRequest(p) ==
    {symbol \in Range(p.symbols) :
        LET key == KeyOf(symbol, p.currency)
        IN  ~(/\ key \in DOMAIN priceCache'
              /\ now' - priceCache'[key].timestamp < ThirtyMinutes)}

\* a pass that starts requests exactly the symbols without a fresh quote, in
\* one request, and none when there is no such symbol
OneRequestForTheRest ==
    passesStarted' # passesStarted =>
        LET p == StartedPass
        IN  /\ Range(p.uncached) = NeedsRequest(p)
            /\ Len(p.uncached) = Cardinality(NeedsRequest(p))
            /\ p.requested <=> NeedsRequest(p) # {}
            /\ p.stage = "fetching" <=> p.requested

\* a pass awaits a request only from its start on, until that request settles
NoFurtherRequest ==
    \A r \in Range(passes') \cup Range(lastPass') :
        \/ r.n = passesStarted' /\ passesStarted' # passesStarted
        \/ \E q \in Range(passes) :
              /\ q.n = r.n
              /\ r.requested = q.requested /\ r.uncached = q.uncached
              /\ r.stage = "fetching" => (q.stage = "fetching" /\ r = q)
        \/ r \in Range(lastPass)

\* C23: one call of fetchMultipleCryptoPrices issues at most one outbound
\* request, covering exactly the requested symbols that have no valid cached
\* quote, and issues none when every requested symbol has a valid cached quote;
\* hence one valuation pass issues at most one outbound request.
C23_OneRequestPerBatch == [][OneRequestForTheRest /\ NoFurtherRequest]_vars

\* a pass over two held assets that was served one quote from the cache,
\* requested the other and has received the answer
C23_Witness ==
    \E p \in Range(passes) :
        /\ p.stage = "delaying" /\ p.requested
        /\ Len(p.symbols) = 2 /\ Len(p.uncached) = 1
        /\ DOMAIN p.results = Range(p.symbols)
        /\ \E a \in Range(p.symbols) \ Range(p.uncached) : p.results[a] = Some(2)

-----------------------------------------------------------------------------
(* Claims checked under Spec: concurrent lookups of one key *)

\* how many of the lookups in flight await their request
Awaiting(lookups) == Cardinality({i \in 1..Len(lookups) : lookups[i].stage = "fetching"})

\* a lookup in flight awaits a request that covers the key
AwaitedFor(key) ==
    \/ \E c \in Range(calls) :
          c.stage = "fetching" /\ KeyOf(c.symbol, c.currency) = key
    \/ \E p \in Range(passes) :
          p.stage = "fetching" /\ \E symbol \in Range(p.uncached) :
              KeyOf(symbol, p.currency) = key

\* a lookup that starts for a key with no fresh quote issues its own request,
\* also while another lookup awaits a request for that key
OwnRequest ==
    /\ callsStarted' # callsStarted =>
          LET c == StartedCall
              key == KeyOf(c.symbol, c.currency)
          IN  (AwaitedFor(key) /\ ~IsFresh(key)) =>
                  /\ calls' = Append(calls, c)
                  /\ c.stage = "fetching" /\ c.requested
                  /\ Awaiting(calls') = Awaiting(calls) + 1
                  /\ passes' = passes
    /\ passesStarted' # passesStarted =>
          LET p == StartedPass
          IN  \A symbol \in Range(p.symbols) :
                  LET key == KeyOf(symbol, p.currency)
                  IN  (AwaitedFor(key) /\ ~IsFresh(key)) =>
                          /\ passes' = Append(passes, p)
                          /\ p.stage = "fetching" /\ symbol \in Range(p.uncached)
                          /\ calls' = calls

\* an answer settles the request of one lookup and leaves every other lookup
\* as it was, still awaiting its own
OneAnswerOneLookup ==
    /\ Awaiting(calls) + Awaiting(passes) <= Awaiting(calls') + Awaiting(passes') + 1
    /\ Awaiting(calls') < Awaiting(calls) =>
          /\ passes' = passes
          /\ \E i \in 1..Len(calls) :
                /\ calls[i].stage = "fetching"
                /\ \/ calls' = Without(calls, i)
                   \/ /\ Len(calls') = Len(calls)
                      /\ \A j \in 1..Len(calls) \ {i} : calls'[j] = calls[j]
    /\ Awaiting(passes') < Awaiting(passes) =>
          /\ calls' = calls
          /\ \E i \in 1..Len(passes) :
                /\ passes[i].stage = "fetching"
                /\ \/ passes' = Without(passes, i)
                   \/ /\ Len(passes') = Len(passes)
                      /\ \A j \in 1..Len(passes) \ {i} : passes'[j] = passes[j]

\* the quote a request has just obtained replaces whatever the cache held for
\* its key
LastWriteWins ==
    \A key \in (Symbols \X Currencies) :
        \A quote \in [price : PriceValues, timestamp : {now}] :
            (ObtainedByCall(key, quote) \/ ObtainedByBatch(key, quote))
                => key \in DOMAIN priceCache' /\ priceCache'[key] = quote

\* C24: two lookups for the same uncached (symbol, currency) key that start
\* before either resolves each issue their own outbound request (no in-flight
\* coalescing); both complete, and the cache afterwards holds the quote
\* written last (last-write-wins).
C24_NoCoalescing == [][OwnRequest /\ OneAnswerOneLookup /\ LastWriteWins]_vars

\* a single-symbol call and a valuation pass for the same key, each started
\* before the request of the other was answered, both answered with a price;
\* the call has returned and the cache holds the quote of the later answer
C24_Witness ==
    \E c \in Range(lastCall), p \in AllPasses :
        LET key == KeyOf(c.symbol, c.currency)
        IN  /\ c.requested /\ c.price.value # Null
            /\ p.requested /\ p.answered # Null /\ ~p.failed
            /\ \E symbol \in Range(p.uncached) :
                  /\ KeyOf(symbol, p.currency) = key
                  /\ Lookup(p.results, toUpperCase[symbol]) # Null
            /\ p.began < Val(c.answered)
            /\ c.began < Val(p.answered)
            /\ Val(c.answered) < Val(p.answered)
            /\ key \in DOMAIN priceCache
            /\ priceCache[key].timestamp = Val(p.answered)

-----------------------------------------------------------------------------
(* Claims checked under SpecProps: the loading flag *)

\* C25 as stated: the loading flag of usePortfolioPnL is true whenever a
\* valuation pass with spot trades is in flight and false only when no pass is
\* in flight, also when passes started by successive inputs or refetches
\* overlap.
C25_LoadingWhileInFlight == passes # <<>> => loading

-----------------------------------------------------------------------------
(* Claims checked under SpecDashboard *)

\* the spot rows as they are stored
StoredSpotTrades == SelectSeq(tradesTable, IsSpot)

\* C26 as stated: the grand total shown on the trader dashboard equals the
\* snapshot computed from the trader's complete ledger rows: a spot entry
\* recorded as a sell reduces the net position and every recorded fee is
\* included in invested, i.e. the rows handed to GrandTotalPortfolio carry the
\* side marker and fees of the stored entries.
C26_DashboardUsesLedgerRows ==
    \A p \in DonePasses :
        /\ p.active = ActivePositions(StoredSpotTrades)
        /\ grandTotalData = GrandTotalDataOf(portfolioData, tradesTable, cashflows)

-----------------------------------------------------------------------------
(* Claims checked under SpecProps: a failed request beside cached quotes *)

\* C27 as stated: when the outbound request of fetchMultipleCryptoPrices
\* fails, the requested symbols that had a valid cached quote at the start of
\* the call are still returned with their cached price; only the symbols that
\* needed the request map to null.
C27_CachedKeptOnFailure ==
    \A p \in DonePasses :
        (p.requested /\ p.failed) =>
            /\ p.fetched.kind = "return"
            /\ \A symbol \in Range(p.symbols) :
                  Lookup(p.fetched.value, toUpperCase[symbol])
                     = IF symbol \in Range(p.uncached) THEN Null
                       ELSE p.results[toUpperCase[symbol]]

-----------------------------------------------------------------------------
(* Claims checked under SpecRealTime *)

\* the fetchPrices calls, in flight or settled
AllFetches == Range(fetches) \cup Range(lastFetch)

\* C28 as stated: with the default refresh interval (30 minutes, equal to the
\* cache TTL), every interval tick of useRealTimePrices issues an outbound
\* request for its symbols, so the prices it exposes after a tick were fetched
\* at that tick and not served from the quote cached at the previous tick.
C28_EveryTickFetches ==
    \A f \in AllFetches :
        f.tick > 0 => (f.requested /\ f.uncached = f.symbols)

-----------------------------------------------------------------------------
(* Claims checked under SpecRefresh: the refresh button *)

\* the step starts a pass for a component that is mounted and keeps its inputs
IsRefresh ==
    /\ passesStarted > 0
    /\ passesStarted' # passesStarted
    /\ UNCHANGED <<trades, currency>>

\* a refresh leaves no quote in the cache, and the pass it starts requests
\* every held asset and takes nothing from the cache
RefreshRequestsAll ==
    IsRefresh =>
        LET p == StartedPass
        IN  /\ DOMAIN priceCache' = {}
            /\ Range(p.uncached) = HeldAssets(p)
            /\ DOMAIN p.results = {}
            /\ HeldAssets(p) # {} => (p.requested /\ p.stage = "fetching")

\* the prices such a pass returns are those of its own answer
RefreshUsesOwnAnswer ==
    \A p \in Range(lastPass') :
        (p.n > 1 /\ p.requested) =>
            \A a \in HeldAssets(p) :
                \/ Lookup(p.fetched.value, a) = Null
                \/ /\ Val(p.response).kind = "ok"
                   /\ Lookup(p.fetched.value, a)
                         = Lookup(Val(p.response).data, symbolToCoinGeckoId(a))

\* C29: a user-triggered refresh clears the price cache before it re-runs the
\* valuation, so the valuation pass it starts issues an outbound request for
\* every held asset and uses no quote that was cached before the refresh
\* began.
C29_RefreshClearsFirst == [][RefreshRequestsAll /\ RefreshUsesOwnAnswer]_vars

\* a pass started by a refresh awaits its request for an asset whose quote the
\* first pass had cached less than thirty minutes before
C29_Witness ==
    \E p \in Range(passes), q \in DonePasses :
        /\ q.n = 1 /\ p.n = 2
        /\ p.stage = "fetching" /\ p.requested
        /\ q.requested /\ ~q.failed
        /\ \E a \in Range(p.uncached) :
              Lookup(q.fetched.value, a) # Null
        /\ p.began - Val(q.answered) < ThirtyMinutes
        /\ priceCache = EmptyCache

-----------------------------------------------------------------------------
(* Claims checked under Spec: a price of 0 *)

\* the answer holds no price for the coin: no entry, or an entry of 0
NoPriceFor(response, coinId) ==
    \/ Lookup(response.data, coinId) = Null
    \/ Lookup(response.data, coinId) = Some(0)

\* C30: the adapter never returns or caches 0 as a price: in every reachable
\* state each cached quote has a non-zero price, and a price of 0 (or an absent
\* price) in the service response is reported as null for that symbol.
C30_NeverZero ==
    /\ \A key \in DOMAIN priceCache : priceCache[key].price # 0
    /\ \A c \in Range(calls) \cup Range(lastCall) :
          /\ c.price.value # Some(0)
          /\ (c.answered # Null /\ Val(c.response).kind = "ok"
                /\ NoPriceFor(Val(c.response), symbolToCoinGeckoId(c.symbol)))
                 => c.price = Return(Null)
    /\ \A p \in AllPasses :
          /\ \A a \in DOMAIN p.results : p.results[a] # Some(0)
          /\ (p.answered # Null /\ Val(p.response).kind = "ok") =>
                \A symbol \in Range(p.uncached) :
                    NoPriceFor(Val(p.response), symbolToCoinGeckoId(symbol))
                        => p.results[toUpperCase[symbol]] = Null
          /\ p.fetched.kind = "return" =>
                \A a \in DOMAIN p.fetched.value : p.fetched.value[a] # Some(0)
          /\ (p.calculation.kind = "return" /\ p.calculation.value # Null) =>
                \A item \in ItemsOf(p) : item.currentPrice # Some(0)

\* a single-symbol call and a valuation pass were both answered a price of 0,
\* returned null, and the cache holds no quote
C30_Witness ==
    \E c \in Range(lastCall), p \in DonePasses :
        /\ c.requested /\ Val(c.response).kind = "ok"
        /\ Val(c.response).data[symbolToCoinGeckoId(c.symbol)] = Some(0)
        /\ c.price = Return(Null)
        /\ p.requested /\ Val(p.response).kind = "ok"
        /\ \E symbol \in Range(p.uncached) :
              /\ Val(p.response).data[symbolToCoinGeckoId(symbol)] = Some(0)
              /\ p.fetched.value[toUpperCase[symbol]] = Null
        /\ priceCache = EmptyCache

====
